---- MODULE Spec2Model ----
(***************************************************************************)
(* gara-frontend: the API-route pipeline (session gate, backend proxy,     *)
(* error responder) and the observability layer (trackOperation, metrics   *)
(* clients).  One request is handled at a time by the route model; the     *)
(* events a handler performs are recorded in order in its trace.           *)
(***************************************************************************)
EXTENDS Integers, Sequences, FiniteSets, TLC

VARIABLES
    req,        \* the inbound request being answered (route model)
    bk,         \* what the backend does with the outbound call of this request
    env,        \* process environment read by the handlers
    resp,       \* the response returned by the handler
    trace,      \* ordered events of the handler: session check, logs, fetches, metrics
    invoked,    \* a direct call of a library function (handleApiError, trackOperation)
    returned,   \* what that call returned or threw
    client,     \* the metrics client: [kind, enabled, loggerThrows]
    metricsBuffer,  \* the client's in-memory buffer (metric ids, oldest first)
    flushTimer, \* TRUE while the periodic flush timer is set
    inflight,   \* flushes that swapped the buffer out and await the sink write
    sink,       \* metric ids written to the sink (file / CloudWatch), in order
    nextId,     \* id of the next metric to be accepted
    callers,    \* per concurrent request: state and outcome of its putMetric call
    log         \* logger calls made by the last step of the metrics client

routeVars == << req, bk, env, resp, trace >>
callVars == << invoked, returned >>
clientVars == << client, metricsBuffer, flushTimer, inflight, sink, nextId, callers, log >>
vars == << req, bk, env, resp, trace, invoked, returned,
           client, metricsBuffer, flushTimer, inflight, sink, nextId, callers, log >>

----------------------------------------------------------------------------
(* Values *)

NoValue == [none |-> "none"]

\* Error values thrown inside a handler (JS Error instances unless kind says otherwise)
Err(name, msg) == [kind |-> "Error", name |-> name, msg |-> msg]
NetworkError == Err("TypeError", "fetch failed")
JsonError == Err("SyntaxError", "Unexpected token in JSON")
MetricsError == Err("Error", "metrics emission failed")

\* Events of a handler's trace
Ev(ev, name, arg, tag) == [ev |-> ev, name |-> name, arg |-> arg, tag |-> tag]
SessionEv == Ev("session", "getServerSession", "", "")
LogEv(level, msg, op) == Ev("log", level, msg, op)
FetchEv(method, path, headers) == Ev("fetch", method, path, headers)
MetricEv(name, suffix, dims) == Ev("metric", name, suffix, dims)

IsFetch(e) == e.ev = "fetch"
IsMetric(e) == e.ev = "metric"
IsLog(e) == e.ev = "log"

Outbound(t) == SelectSeq(t, IsFetch)

----------------------------------------------------------------------------
(* lib/observability/errorHandler.ts *)

\* getErrorSeverity with status 500 itself not counted as a server error
getErrorSeverityAbove500(statusCode) ==
    IF statusCode > 500 THEN "critical"
    ELSE IF statusCode >= 400 THEN "medium"
    ELSE "low"

getErrorSeverity(statusCode) ==
    IF statusCode >= 500 THEN "critical"
    ELSE IF statusCode >= 400 THEN "medium"
    ELSE "low"

shouldExposeErrorAll4xxAnd5xx(statusCode) == statusCode >= 400

shouldExposeError(statusCode) == statusCode >= 400 /\ statusCode < 500

\* error: [kind, name, msg]; kind in Error, string, object (with message),
\* bare (object without message), null, undefined
Truthy(error) == error.kind \notin {"null", "undefined"}
TypeofObject(error) == error.kind \in {"Error", "object", "bare", "null"}
HasMessage(error) == error.kind \in {"Error", "object"}

\* extractErrorMessage without the `'message' in error` test: String(undefined)
extractErrorMessageNoInTest(error) ==
    IF error.kind = "Error" THEN error.msg
    ELSE IF error.kind = "string" THEN error.msg
    ELSE IF Truthy(error) /\ TypeofObject(error)
         THEN (IF HasMessage(error) THEN error.msg ELSE "undefined")
    ELSE "An unknown error occurred"

extractErrorMessage(error) ==
    IF error.kind = "Error" THEN error.msg
    ELSE IF error.kind = "string" THEN error.msg
    ELSE IF Truthy(error) /\ TypeofObject(error) /\ HasMessage(error) THEN error.msg
    ELSE "An unknown error occurred"

\* userMessage = "" stands for "not supplied" (undefined)
createErrorResponse(error, statusCode, userMessage, nodeEnv) ==
    LET shouldExpose == shouldExposeError(statusCode)
        errorMessage == extractErrorMessage(error)
        withDetails == nodeEnv = "development" /\ error.kind = "Error"
        fields == {"error"} \cup (IF shouldExpose THEN {"message"} ELSE {})
                            \cup (IF withDetails THEN {"details"} ELSE {})
        val(f) == IF f = "error"
                     THEN (IF userMessage # "" THEN userMessage
                           ELSE IF shouldExpose THEN errorMessage
                           ELSE "Internal server error")
                  ELSE IF f = "message" THEN errorMessage
                  ELSE error.name
    IN \* NextResponse.json drops the fields whose value is undefined
       [f \in fields |-> val(f)]

\* Result of a handler (or of handleApiError): the response and the events it performed
Result(status, body, t) == [status |-> status, body |-> body, trace |-> t]

\* contextOperation = "" stands for a context without an operation
handleApiError(error, contextOperation, statusCode, userMessage, nodeEnv) ==
    LET errorInstance == IF error.kind = "Error" THEN error
                         ELSE Err("Error", extractErrorMessage(error))
        severity == getErrorSeverity(statusCode)
        operation == IF contextOperation = "" THEN "unknown_operation" ELSE contextOperation
        t == << LogEv("error", "API error", operation)
                    @@ [error |-> errorInstance.msg, statusCode |-> statusCode,
                        severity |-> severity],
                MetricEv("Errors", operation, errorInstance.name),
                MetricEv("ApiErrors", operation, severity) @@ [statusCode |-> statusCode] >>
    IN Result(statusCode, createErrorResponse(error, statusCode, userMessage, nodeEnv), t)

----------------------------------------------------------------------------
(* lib/observability/metrics.ts: trackOperation *)

\* faults[i] = TRUE: the i-th call made on metricsClient throws
NoFaults == [i \in 1..5 |-> FALSE]

RECURSIVE RunCalls(_, _, _)
RunCalls(calls, i, faults) ==
    IF calls = <<>> THEN [emitted |-> <<>>, threw |-> FALSE, used |-> 0]
    ELSE IF faults[i] THEN [emitted |-> <<>>, threw |-> TRUE, used |-> 1]
    ELSE LET r == RunCalls(Tail(calls), i + 1, faults)
         IN [emitted |-> <<Head(calls)>> \o r.emitted, threw |-> r.threw, used |-> r.used + 1]

\* op: the outcome of the wrapped closure, [ok, value, error, trace]
Op(ok, value, error, t) == [ok |-> ok, value |-> value, error |-> error, trace |-> t]
OpOk(value, t) == Op(TRUE, value, NoValue, t)
OpFail(error, t) == Op(FALSE, NoValue, error, t)

trackOperation(name, op, faults) ==
    LET success == << MetricEv(name, "duration", ""), MetricEv(name, "Success", "") >>
        failure == << MetricEv(name, "duration", ""), MetricEv(name, "Failure", ""),
                      MetricEv("Errors", name, "ErrorType") >>
    IN IF op.ok
       THEN LET s == RunCalls(success, 1, faults)
            IN IF ~s.threw
               THEN OpOk(op.value, op.trace \o s.emitted)
               ELSE \* the await inside try threw: the catch block runs with that error
                    LET c == RunCalls(failure, s.used + 1, faults)
                    IN OpFail(MetricsError, op.trace \o s.emitted \o c.emitted)
       ELSE LET c == RunCalls(failure, 1, faults)
            IN OpFail(IF c.threw THEN MetricsError ELSE op.error, op.trace \o c.emitted)

----------------------------------------------------------------------------
(* Inputs of the route handlers *)

MAX_FILE_SIZE == 50 * 1024 * 1024

VALID_TYPES == {"image/jpeg", "image/png", "image/gif", "image/webp"}

FileTypes == VALID_TYPES \cup {"application/pdf", "image/bmp"}

FileSizes == {0, 1024, MAX_FILE_SIZE - 1, MAX_FILE_SIZE, MAX_FILE_SIZE + 1, 51 * 1024 * 1024}

NoFile == [present |-> FALSE, size |-> 0, type |-> ""]
Files == {NoFile} \cup [present : {TRUE}, size : FileSizes, type : FileTypes]

Request(route, session, bodyOk, published, file) ==
    [route |-> route, session |-> session, bodyOk |-> bodyOk,
     published |-> published, file |-> file]

\* Bodies of POST /api/albums: CreateAlbumRequest values as JSON texts, and a
\* text request.json() cannot parse
CreateAlbumRequests ==
    {[name |-> "Test Album"],
     [name |-> "Test Album", description |-> "Test Description", published |-> "false"],
     [name |-> "", tags |-> << "test", "a b" >>]}
AlbumTexts == [json : CreateAlbumRequests, ws : BOOLEAN]
MalformedText == [json |-> NoValue, ws |-> FALSE]

\* What the backend answers: kind "ok" (2xx), "nonok" (any other status) or
\* "throw" (fetch rejects); parses = FALSE: response.json() throws; text: response.text()
OkBodies == {[id |-> "album-1"], [success |-> "true"]}
ErrBodies == {[error |-> "Invalid album data"], [message |-> "Album already deleted"],
              [error |-> "Conflict", message |-> "Album name taken"]}
NonOkStatuses == {400, 404, 409, 500, 503}

Backend(kind, status, body, parses, text) ==
    [kind |-> kind, status |-> status, body |-> body, parses |-> parses, text |-> text]

JsonBackends ==
    {Backend("ok", 200, b, p, "") : b \in OkBodies, p \in BOOLEAN}
    \cup {Backend("nonok", s, b, p, "") : s \in NonOkStatuses, b \in ErrBodies, p \in BOOLEAN}
    \cup {Backend("throw", 0, NoValue, FALSE, "")}

UploadBackends ==
    {Backend("ok", 200, b, p, "") : b \in {[id |-> "img-1"]}, p \in BOOLEAN}
    \cup {Backend("nonok", s, NoValue, FALSE, t) : s \in {400, 413, 500}, t \in {"", "disk full"}}
    \cup {Backend("throw", 0, NoValue, FALSE, "")}

\* process.env as the modules read it when loaded: NODE_ENV, GARA_API_KEY, and
\* whether NEXT_PUBLIC_API_URL is set to a non-empty value
Envs == [nodeEnv : {"production", "development"}, apiKeySet : BOOLEAN,
         backendUrlSet : BOOLEAN]

\* The album routes build `${BACKEND_URL}/api/albums...` whatever BACKEND_URL is.
\* With it unset or empty the string is no absolute URL and fetch rejects.
AlbumBackends(e) ==
    IF e.backendUrlSet THEN JsonBackends ELSE {Backend("throw", 0, NoValue, FALSE, "")}

\* S3 as GET /api/images sees it: S3_BUCKET_NAME set or not, ListObjectsV2
\* answering with Contents or throwing, getSignedUrl working or throwing
S3Object(key, file, name, modified) ==
    [key |-> key, file |-> file, name |-> name, modified |-> modified]
S3Objects ==
    {S3Object("raw/a.jpg", "a.jpg", "a", "2024-01-01T00:00:00.000Z"),
     S3Object("raw/b.v2.png", "b.v2.png", "b", ""),
     S3Object("raw/", "", "", "2024-01-02T00:00:00.000Z"),
     S3Object("", "", "", "")}
S3Listings == {<< >>} \cup {<< o >> : o \in S3Objects}
                     \cup {<< o1, o2 >> : o1 \in S3Objects, o2 \in S3Objects}
S3Backends ==
    [kind : {"ok", "throw"}, bucket : BOOLEAN, contents : S3Listings, signs : BOOLEAN]

Unauthorized == [error |-> "Unauthorized"]
InternalServerError == [error |-> "Internal server error"]

Prepend(t, result) == [result EXCEPT !.trace = t \o @]

\* error.message ?? fallback
MessageOr(body, fallback) == IF "message" \in DOMAIN body THEN body.message ELSE fallback

----------------------------------------------------------------------------
(* Route handlers.  Each operator is the whole handler: the response and the *)
(* ordered events, as a function of the request, the backend's behaviour and *)
(* the environment.                                                          *)

\* GET /api/albums
GetAlbums(r, b, e) ==
    LET path == IF r.published # "" THEN "/api/albums?published" ELSE "/api/albums"
        pre == << LogEv("debug", "Fetching albums from backend", "") >>
        call == << FetchEv("GET", path, "none") >>
        closure ==
            IF b.kind = "throw" THEN OpFail(NetworkError, call)
            ELSE IF b.kind = "nonok"
                 THEN OpFail(Err("Error", "Backend returned status"),
                             call \o << LogEv("warn", "Backend returned error", "") >>)
            ELSE IF ~b.parses THEN OpFail(JsonError, call)
            ELSE OpOk(b.body, call)
        tracked == trackOperation("FetchAlbums", closure, NoFaults)
    IN IF tracked.ok
       THEN Result(200, tracked.value,
                   pre \o tracked.trace \o << LogEv("info", "Albums fetched successfully", "") >>)
       ELSE Prepend(pre \o tracked.trace,
                    handleApiError(tracked.error, "GET /api/albums", 500, "", e.nodeEnv))

\* headers: { 'Content-Type': 'application/json', 'X-API-Key': API_KEY || '' }
JsonKeyHeaders(e) == IF e.apiKeySet THEN "json+key" ELSE "json+emptykey"

\* headers: { 'X-API-Key': API_KEY || '' }
KeyHeaders(e) == IF e.apiKeySet THEN "key" ELSE "emptykey"

\* A JSON text is the value it encodes plus whether it carries insignificant
\* white space; JSON.parse keeps the value, JSON.stringify writes it compactly
JSONText(value, ws) == [json |-> value, ws |-> ws]
JSONParse(text) == text.json
JSONStringify(value) == JSONText(value, FALSE)

\* The fetch of POST /api/albums without the API key header
CreateAlbumCallNoKey(r, e) ==
    FetchEv("POST", "/api/albums", "json") @@ [body |-> JSONStringify(JSONParse(r.text))]

\* fetch(`${BACKEND_URL}/api/albums`, {method: 'POST', headers, body: JSON.stringify(body)})
CreateAlbumCall(r, e) ==
    FetchEv("POST", "/api/albums", JsonKeyHeaders(e))
        @@ [body |-> JSONStringify(JSONParse(r.text))]

\* POST /api/albums, with the session check moved after the backend call
PostAlbumsFetchFirst(r, b, e) ==
    LET call == << FetchEv("POST", "/api/albums", "json+key") >>
    IN IF ~r.session
       THEN Result(401, Unauthorized, call \o << SessionEv >>)
       ELSE Result(201, b.body, call \o << SessionEv >>)

\* POST /api/albums
PostAlbums(r, b, e) ==
    LET call == << CreateAlbumCall(r, e) >>
        pre == << SessionEv, LogEv("debug", "Creating new album", "") >>
        closure ==
            IF b.kind = "throw" THEN OpFail(NetworkError, call)
            ELSE IF b.kind = "nonok"
                 THEN LET t == call \o << LogEv("warn", "Backend album creation failed", "") >>
                      IN IF ~b.parses THEN OpFail(JsonError, t)
                         ELSE OpFail(Err("Error", MessageOr(b.body, "Album creation failed")), t)
            ELSE IF ~b.parses THEN OpFail(JsonError, call)
            ELSE OpOk(b.body, call)
        tracked == trackOperation("CreateAlbum", closure, NoFaults)
    IN IF ~r.session
       THEN Result(401, Unauthorized,
                   << SessionEv, LogEv("warn", "Unauthorized album creation attempt", "") >>)
       ELSE IF ~r.bodyOk
       THEN Prepend(<< SessionEv >>,
                    handleApiError(JsonError, "POST /api/albums", 500, "", e.nodeEnv))
       ELSE IF tracked.ok
       THEN Result(201, tracked.value,
                   pre \o tracked.trace \o << LogEv("info", "Album created successfully", "") >>)
       ELSE Prepend(pre \o tracked.trace,
                    handleApiError(tracked.error, "POST /api/albums", 500, "", e.nodeEnv))

\* GET /api/albums/[id], answering with the default status of handleApiError
GetAlbumDefaultStatus(r, b, e) ==
    LET call == << FetchEv("GET", "/api/albums/{id}", "none") >>
        closure ==
            IF b.kind = "throw" THEN OpFail(NetworkError, call)
            ELSE IF b.kind = "nonok" THEN OpFail(Err("Error", "Album not found"), call)
            ELSE IF ~b.parses THEN OpFail(JsonError, call)
            ELSE OpOk(b.body, call)
        tracked == trackOperation("FetchAlbum", closure, NoFaults)
    IN IF tracked.ok
       THEN Result(200, tracked.value, tracked.trace)
       ELSE Prepend(tracked.trace,
                    handleApiError(tracked.error, "GET /api/albums/[id]", 500, "", e.nodeEnv))

\* GET /api/albums/[id]
GetAlbum(r, b, e) ==
    LET call == << FetchEv("GET", "/api/albums/{id}", "none") >>
        pre == << LogEv("debug", "Fetching album details", "") >>
        closure ==
            IF b.kind = "throw" THEN OpFail(NetworkError, call)
            ELSE IF b.kind = "nonok"
                 THEN OpFail(Err("Error", "Album not found"),
                             call \o << LogEv("warn", "Album not found", "") >>)
            ELSE IF ~b.parses THEN OpFail(JsonError, call)
            ELSE OpOk(b.body, call)
        tracked == trackOperation("FetchAlbum", closure, NoFaults)
    IN IF tracked.ok
       THEN Result(200, tracked.value,
                   pre \o tracked.trace \o << LogEv("info", "Album fetched successfully", "") >>)
       ELSE Prepend(pre \o tracked.trace,
                    handleApiError(tracked.error, "GET /api/albums/[id]", 404, "", e.nodeEnv))

\* PUT /api/albums/[id]
PutAlbum(r, b, e) ==
    LET call == << FetchEv("PUT", "/api/albums/{id}", JsonKeyHeaders(e)) >>
        pre == << SessionEv, LogEv("debug", "Updating album", "") >>
        closure ==
            IF b.kind = "throw" THEN OpFail(NetworkError, call)
            ELSE IF b.kind = "nonok"
                 THEN IF ~b.parses THEN OpFail(JsonError, call)
                      ELSE OpFail(Err("Error", MessageOr(b.body, "Album update failed")),
                                  call \o << LogEv("warn", "Album update failed", "") >>)
            ELSE IF ~b.parses THEN OpFail(JsonError, call)
            ELSE OpOk(b.body, call)
        tracked == trackOperation("UpdateAlbum", closure, NoFaults)
    IN IF ~r.session
       THEN Result(401, Unauthorized,
                   << SessionEv, LogEv("warn", "Unauthorized album update attempt", "") >>)
       ELSE IF ~r.bodyOk
       THEN Prepend(<< SessionEv >>,
                    handleApiError(JsonError, "PUT /api/albums/[id]", 500, "", e.nodeEnv))
       ELSE IF tracked.ok
       THEN Result(200, tracked.value,
                   pre \o tracked.trace \o << LogEv("info", "Album updated successfully", "") >>)
       ELSE Prepend(pre \o tracked.trace,
                    handleApiError(tracked.error, "PUT /api/albums/[id]", 500, "", e.nodeEnv))

\* DELETE /api/albums/[id]
DeleteAlbum(r, b, e) ==
    LET call == << FetchEv("DELETE", "/api/albums/{id}", KeyHeaders(e)) >>
        pre == << SessionEv, LogEv("info", "Deleting album", "") >>
        closure ==
            IF b.kind = "throw" THEN OpFail(NetworkError, call)
            ELSE IF b.kind = "nonok"
                 THEN IF ~b.parses THEN OpFail(JsonError, call)
                      ELSE OpFail(Err("Error", MessageOr(b.body, "Album deletion failed")),
                                  call \o << LogEv("warn", "Album deletion failed", "") >>)
            ELSE IF ~b.parses THEN OpFail(JsonError, call)
            ELSE OpOk(b.body, call)
        tracked == trackOperation("DeleteAlbum", closure, NoFaults)
    IN IF ~r.session
       THEN Result(401, Unauthorized,
                   << SessionEv, LogEv("warn", "Unauthorized album deletion attempt", "") >>)
       ELSE IF tracked.ok
       THEN Result(200, tracked.value,
                   pre \o tracked.trace \o << LogEv("info", "Album deleted successfully", "") >>)
       ELSE Prepend(pre \o tracked.trace,
                    handleApiError(tracked.error, "DELETE /api/albums/[id]", 500, "", e.nodeEnv))

\* The proxy of the routes without observability: fetch, pass a non-ok
\* answer through, answer 500 on any exception
PlainProxy(call, okStatus, b) ==
    IF b.kind = "throw" THEN Result(500, InternalServerError, call)
    ELSE IF ~b.parses THEN Result(500, InternalServerError, call)
    ELSE IF b.kind = "nonok" THEN Result(b.status, b.body, call)
    ELSE Result(okStatus, b.body, call)

\* POST /api/albums/[id]/images
PostAlbumImages(r, b, e) ==
    IF ~r.session THEN Result(401, Unauthorized, << SessionEv >>)
    ELSE IF ~r.bodyOk THEN Result(500, InternalServerError, << SessionEv >>)
    ELSE Prepend(<< SessionEv >>,
                 PlainProxy(<< FetchEv("POST", "/api/albums/{id}/images", JsonKeyHeaders(e)) >>, 200, b))

\* DELETE /api/albums/[id]/images/[imageId]
DeleteAlbumImage(r, b, e) ==
    IF ~r.session THEN Result(401, Unauthorized, << SessionEv >>)
    ELSE Prepend(<< SessionEv >>,
                 PlainProxy(<< FetchEv("DELETE", "/api/albums/{id}/images/{imageId}", KeyHeaders(e)) >>,
                            200, b))

\* PUT /api/albums/[id]/reorder
PutReorder(r, b, e) ==
    LET call == << FetchEv("PUT", "/api/albums/{id}/reorder", JsonKeyHeaders(e)) >>
        pre == << SessionEv, LogEv("debug", "Reordering album images", "") >>
        closure == IF b.kind = "throw" THEN OpFail(NetworkError, call) ELSE OpOk(b, call)
        tracked == trackOperation("ReorderAlbumImages", closure, NoFaults)
        operation == "PUT /api/albums/[id]/reorder"
    IN IF ~r.session
       THEN Result(401, Unauthorized,
                   << SessionEv, LogEv("warn", "Unauthorized reorder attempt", "") >>)
       ELSE IF ~r.bodyOk
       THEN Prepend(<< SessionEv >>, handleApiError(JsonError, operation, 500, "", e.nodeEnv))
       ELSE IF ~tracked.ok
       THEN Prepend(pre \o tracked.trace,
                    handleApiError(tracked.error, operation, 500, "", e.nodeEnv))
       ELSE IF b.kind = "nonok"
       THEN LET t == pre \o tracked.trace \o << LogEv("warn", "Reorder failed", "") >>
            IN IF ~b.parses
               THEN Prepend(t, handleApiError(JsonError, operation, 500, "", e.nodeEnv))
               ELSE Result(b.status, b.body, t)
       ELSE IF ~b.parses
       THEN Prepend(pre \o tracked.trace,
                    handleApiError(JsonError, operation, 500, "", e.nodeEnv))
       ELSE Result(200, b.body,
                   pre \o tracked.trace
                       \o << LogEv("info", "Album images reordered successfully", "") >>)

RECURSIVE Reverse(_)
\* Array.prototype.reverse
Reverse(q) == IF q = << >> THEN << >> ELSE Append(Reverse(Tail(q)), Head(q))

S3Ev(command, key) == Ev("s3", command, key, "")

\* The loop body of GET /api/images filters on object.Key and the file name
Listed(o) == o.key # "" /\ o.file # ""

ImageOf(o, signs) ==
    [id |-> o.key, name |-> o.name, url |-> IF signs THEN "signed" ELSE "",
     uploadedAt |-> IF o.modified # "" THEN o.modified ELSE "now"]

RECURSIVE ImagesOf(_, _)
ImagesOf(contents, signs) ==
    IF contents = << >> THEN << >>
    ELSE IF Listed(Head(contents))
         THEN << ImageOf(Head(contents), signs) >> \o ImagesOf(Tail(contents), signs)
         ELSE ImagesOf(Tail(contents), signs)

RECURSIVE SignEvents(_, _)
SignEvents(contents, signs) ==
    IF contents = << >> THEN << >>
    ELSE IF Listed(Head(contents))
         THEN << S3Ev("getSignedUrl", Head(contents).key) >>
              \o (IF signs THEN << >>
                  ELSE << LogEv("console.error", "Error generating signed URL", "") >>)
              \o SignEvents(Tail(contents), signs)
         ELSE SignEvents(Tail(contents), signs)

\* GET /api/images behind the session check of the mutating routes
GetImagesSessionGated(r, b, e) ==
    LET list == << S3Ev("ListObjectsV2", "raw/") >>
    IN IF ~r.session THEN Result(401, Unauthorized, << SessionEv >>)
       ELSE IF ~b.bucket THEN Result(500, [error |-> "S3 bucket not configured"], << SessionEv >>)
       ELSE IF b.kind = "throw"
       THEN Result(500, [error |-> "Failed to fetch images"],
                   << SessionEv >> \o list
                       \o << LogEv("console.error", "Error fetching images", "") >>)
       ELSE Result(200, [images |-> Reverse(ImagesOf(b.contents, b.signs))],
                   << SessionEv >> \o list \o SignEvents(b.contents, b.signs))

\* GET /api/images
GetImages(r, b, e) ==
    LET list == << S3Ev("ListObjectsV2", "raw/") >>
    IN IF ~b.bucket THEN Result(500, [error |-> "S3 bucket not configured"], << >>)
       ELSE IF b.kind = "throw"
       THEN Result(500, [error |-> "Failed to fetch images"],
                   list \o << LogEv("console.error", "Error fetching images", "") >>)
       ELSE Result(200, [images |-> Reverse(ImagesOf(b.contents, b.signs))],
                   list \o SignEvents(b.contents, b.signs))

\* File size check of POST /api/upload, with the boundary excluded
FileTooLargeInclusive(size) == size >= MAX_FILE_SIZE

\* file.size > 50 * 1024 * 1024
FileTooLarge(size) == size > MAX_FILE_SIZE

\* File type check of POST /api/upload with one more image type let through
InvalidFileTypeBmpAllowed(type) == type \notin VALID_TYPES \cup {"image/bmp"}

\* !validTypes.includes(file.type)
InvalidFileType(type) == type \notin VALID_TYPES

\* the upload request sent a second time after the first attempt
UploadCallRetried(e) ==
    << FetchEv("POST", "/api/images/upload", IF e.apiKeySet THEN "key" ELSE "none"),
       FetchEv("POST", "/api/images/upload", IF e.apiKeySet THEN "key" ELSE "none") >>

UploadCall(e) ==
    << FetchEv("POST", "/api/images/upload", IF e.apiKeySet THEN "key" ELSE "none") >>

\* POST /api/upload with the type check placed before the size check
PostUploadTypeBeforeSize(r, b, e) ==
    LET f == r.file
        caught == << LogEv("console.error", "Upload error", "") >>
    IN IF ~r.session THEN Result(401, Unauthorized, << SessionEv >>)
       ELSE IF ~r.bodyOk THEN Result(500, InternalServerError, << SessionEv >> \o caught)
       ELSE IF ~f.present THEN Result(400, [error |-> "No file provided"], << SessionEv >>)
       ELSE IF InvalidFileType(f.type)
       THEN Result(400, [error |-> "Invalid file type"], << SessionEv >>)
       ELSE IF FileTooLarge(f.size)
       THEN Result(400, [error |-> "File too large"], << SessionEv >>)
       ELSE LET t == << SessionEv >> \o UploadCall(e)
            IN IF b.kind = "throw" THEN Result(500, InternalServerError, t \o caught)
               ELSE IF b.kind = "nonok"
               THEN Result(b.status,
                           [error |-> IF b.text # "" THEN b.text ELSE "Upload failed"], t)
               ELSE IF ~b.parses THEN Result(500, InternalServerError, t \o caught)
               ELSE Result(200, b.body, t)

\* POST /api/upload
PostUpload(r, b, e) ==
    LET f == r.file
        caught == << LogEv("console.error", "Upload error", "") >>
    IN IF ~r.session THEN Result(401, Unauthorized, << SessionEv >>)
       ELSE IF ~r.bodyOk THEN Result(500, InternalServerError, << SessionEv >> \o caught)
       ELSE IF ~f.present THEN Result(400, [error |-> "No file provided"], << SessionEv >>)
       ELSE IF FileTooLarge(f.size)
       THEN Result(400, [error |-> "File too large"], << SessionEv >>)
       ELSE IF InvalidFileType(f.type)
       THEN Result(400, [error |-> "Invalid file type"], << SessionEv >>)
       ELSE LET t == << SessionEv >> \o UploadCall(e)
            IN IF b.kind = "throw" THEN Result(500, InternalServerError, t \o caught)
               ELSE IF b.kind = "nonok"
               THEN Result(b.status,
                           [error |-> IF b.text # "" THEN b.text ELSE "Upload failed"], t)
               ELSE IF ~b.parses THEN Result(500, InternalServerError, t \o caught)
               ELSE Result(200, b.body, t)

\* POST /api/upload with logging and metrics
PostUploadObserved(r, b, e) ==
    LET f == r.file
        operation == "POST /api/upload"
        failed == << MetricEv("UploadFailed", "", "") >>
        closure ==
            IF b.kind = "throw" THEN OpFail(NetworkError, UploadCall(e))
            ELSE IF b.kind = "nonok"
                 THEN OpFail(Err("Error", IF b.text # "" THEN b.text ELSE "Upload failed"),
                             UploadCall(e) \o << LogEv("error", "Backend upload failed", "") >>)
            ELSE IF ~b.parses THEN OpFail(JsonError, UploadCall(e))
            ELSE OpOk(b.body, UploadCall(e))
        tracked == trackOperation("UploadImage", closure, NoFaults)
        pre == << SessionEv, LogEv("debug", "Uploading file to backend", "") >>
    IN IF ~r.session
       THEN Result(401, Unauthorized,
                   << SessionEv, LogEv("warn", "Unauthorized upload attempt", "") >>)
       ELSE IF ~r.bodyOk
       THEN Prepend(<< SessionEv >> \o failed,
                    handleApiError(Err("TypeError", "Failed to parse body as FormData"),
                                   operation, 500, "", e.nodeEnv))
       ELSE IF ~f.present
       THEN Result(400, [error |-> "No file provided"],
                   << SessionEv, LogEv("warn", "Upload request missing file", "") >>)
       ELSE IF FileTooLarge(f.size)
       THEN Result(400, [error |-> "File too large"],
                   << SessionEv, LogEv("warn", "File too large", ""),
                      MetricEv("UploadRejected", "FileTooLarge", "Reason") >>)
       ELSE IF InvalidFileType(f.type)
       THEN Result(400, [error |-> "Invalid file type"],
                   << SessionEv, LogEv("warn", "Invalid file type", ""),
                      MetricEv("UploadRejected", "InvalidFileType", "Reason") >>)
       ELSE IF tracked.ok
       THEN Result(200, tracked.value,
                   pre \o tracked.trace
                       \o << LogEv("info", "File uploaded successfully", ""),
                             MetricEv("ImageUploaded", f.type, "FileType") >>)
       ELSE Prepend(pre \o tracked.trace \o failed,
                    handleApiError(tracked.error, operation, 500, "", e.nodeEnv))

----------------------------------------------------------------------------
(* States of the parts a specification leaves alone *)

NoCall == [fn |-> "none"]

CallsIdle ==
    /\ invoked = NoCall
    /\ returned = NoValue

ClientIdle ==
    /\ client = [kind |-> "noop", enabled |-> FALSE, loggerThrows |-> FALSE]
    /\ metricsBuffer = << >>
    /\ flushTimer = FALSE
    /\ inflight = {}
    /\ sink = << >>
    /\ nextId = 1
    /\ callers = << >>
    /\ log = << >>

----------------------------------------------------------------------------
(* The route model: one action per route handler *)

Idle == [route |-> "none"]

RoutesIdle ==
    /\ req = Idle
    /\ bk = NoValue
    /\ resp = NoValue
    /\ trace = << >>

InitRoutes ==
    /\ RoutesIdle
    /\ env \in Envs
    /\ CallsIdle
    /\ ClientIdle

\* A handler answers one request; the next request is taken once the response is delivered
Handle(r, b, result) ==
    /\ req = Idle
    /\ req' = r
    /\ bk' = b
    /\ resp' = [status |-> result.status, body |-> result.body]
    /\ trace' = result.trace
    /\ UNCHANGED << env, callVars, clientVars >>

HandleGetAlbums ==
    \E p \in {"", "true", "false"}, b \in AlbumBackends(env), s \in BOOLEAN :
        LET r == Request("GET /albums", s, TRUE, p, NoFile)
        IN Handle(r, b, GetAlbums(r, b, env))

HandlePostAlbums ==
    \E s \in BOOLEAN, t \in AlbumTexts \cup {MalformedText}, b \in AlbumBackends(env) :
        LET r == Request("POST /albums", s, t # MalformedText, "", NoFile) @@ [text |-> t]
        IN Handle(r, b, PostAlbums(r, b, env))

HandleGetAlbum ==
    \E s \in BOOLEAN, b \in AlbumBackends(env) :
        LET r == Request("GET /albums/{id}", s, TRUE, "", NoFile)
        IN Handle(r, b, GetAlbum(r, b, env))

HandlePutAlbum ==
    \E s \in BOOLEAN, ok \in BOOLEAN, b \in AlbumBackends(env) :
        LET r == Request("PUT /albums/{id}", s, ok, "", NoFile)
        IN Handle(r, b, PutAlbum(r, b, env))

HandleDeleteAlbum ==
    \E s \in BOOLEAN, b \in AlbumBackends(env) :
        LET r == Request("DELETE /albums/{id}", s, TRUE, "", NoFile)
        IN Handle(r, b, DeleteAlbum(r, b, env))

HandlePostAlbumImages ==
    \E s \in BOOLEAN, ok \in BOOLEAN, b \in AlbumBackends(env) :
        LET r == Request("POST /albums/{id}/images", s, ok, "", NoFile)
        IN Handle(r, b, PostAlbumImages(r, b, env))

HandleDeleteAlbumImage ==
    \E s \in BOOLEAN, b \in AlbumBackends(env) :
        LET r == Request("DELETE /albums/{id}/images/{imageId}", s, TRUE, "", NoFile)
        IN Handle(r, b, DeleteAlbumImage(r, b, env))

HandlePutReorder ==
    \E s \in BOOLEAN, ok \in BOOLEAN, b \in AlbumBackends(env) :
        LET r == Request("PUT /albums/{id}/reorder", s, ok, "", NoFile)
        IN Handle(r, b, PutReorder(r, b, env))

HandleGetImages ==
    \E s \in BOOLEAN, b \in S3Backends :
        LET r == Request("GET /images", s, TRUE, "", NoFile)
        IN Handle(r, b, GetImages(r, b, env))

HandlePostUpload ==
    \E s \in BOOLEAN, ok \in BOOLEAN, f \in Files, b \in UploadBackends :
        LET r == Request("POST /upload", s, ok, "", f)
        IN Handle(r, b, PostUpload(r, b, env))

HandlePostUploadObserved ==
    \E s \in BOOLEAN, ok \in BOOLEAN, f \in Files, b \in UploadBackends :
        LET r == Request("POST /upload (observed)", s, ok, "", f)
        IN Handle(r, b, PostUploadObserved(r, b, env))

\* The response is sent; the per-request state is discarded
Deliver ==
    /\ req # Idle
    /\ req' = Idle
    /\ bk' = NoValue
    /\ resp' = NoValue
    /\ trace' = << >>
    /\ UNCHANGED << env, callVars, clientVars >>

NextRoutes ==
    \/ HandleGetAlbums
    \/ HandlePostAlbums
    \/ HandleGetAlbum
    \/ HandlePutAlbum
    \/ HandleDeleteAlbum
    \/ HandlePostAlbumImages
    \/ HandleDeleteAlbumImage
    \/ HandlePutReorder
    \/ HandleGetImages
    \/ HandlePostUpload
    \/ HandlePostUploadObserved
    \/ Deliver

Spec == InitRoutes /\ [][NextRoutes]_vars

----------------------------------------------------------------------------
(* Properties of the route model *)

MutatingRoutes ==
    {"POST /albums", "PUT /albums/{id}", "DELETE /albums/{id}",
     "POST /albums/{id}/images", "DELETE /albums/{id}/images/{imageId}",
     "PUT /albums/{id}/reorder", "POST /upload", "POST /upload (observed)"}

JsonProxyRoutes == MutatingRoutes \ {"POST /upload", "POST /upload (observed)"}

Handled == req # Idle

SessionPrecedesFetches(t) ==
    \A i \in DOMAIN t : IsFetch(t[i]) => \E j \in 1..(i - 1) : t[j] = SessionEv

\* C1: on every mutating route a request without a session is answered 401 with
\* body exactly {error: "Unauthorized"} and no backend request is issued; on these
\* routes the session check comes before every backend call.
C1_UnauthorizedBeforeBackend ==
    (Handled /\ req.route \in MutatingRoutes) =>
        /\ SessionPrecedesFetches(trace)
        /\ ~req.session =>
              /\ resp = [status |-> 401, body |-> Unauthorized]
              /\ Outbound(trace) = << >>

C1_Witness ==
    /\ Handled
    /\ req.route = "PUT /albums/{id}"
    /\ ~req.session
    /\ bk.kind = "ok"
    /\ resp.status = 401

\* C2: on every authenticated mutating JSON proxy route, a backend answer with a
\* non-success status and a JSON error body is returned to the caller with the
\* backend's status and the backend's body.
C2_BackendErrorPassThrough ==
    (/\ Handled
     /\ req.route \in JsonProxyRoutes
     /\ req.session
     /\ req.bodyOk
     /\ bk.kind = "nonok"
     /\ bk.parses) =>
        resp = [status |-> bk.status, body |-> bk.body]

\* The outbound call raised: the fetch rejected, or the body of a success
\* answer was not JSON
OutboundCallThrew ==
    /\ Handled
    /\ Outbound(trace) # << >>
    /\ \/ bk.kind = "throw"
       \/ bk.kind = "ok" /\ ~bk.parses

\* C3: on every proxy route, GET /albums/{id} included, an exception raised by the
\* outbound call is answered 500 with error "Internal server error", and the
\* response has no message field carrying the exception's message.
C3_ExceptionsMaskedAs500 ==
    OutboundCallThrew =>
        /\ resp.status = 500
        /\ resp.body.error = "Internal server error"
        /\ "message" \notin DOMAIN resp.body

BackendMissedAlbum ==
    /\ Handled
    /\ req.route = "GET /albums/{id}"
    /\ bk.kind = "nonok"

\* C4 as stated: GET /albums/{id} answers any non-ok backend status with 404 and
\* the body {error: "Album not found"}.  Stated for production mode, where no
\* details field is ever added, so that the difference shown is the message field.
C4_AlbumNotFoundBodyOnly ==
    (BackendMissedAlbum /\ env.nodeEnv = "production") =>
        resp = [status |-> 404, body |-> [error |-> "Album not found"]]

\* C4 as amended: GET /albums/{id} answers any non-ok backend status, whatever its
\* code and body, with 404 and a body whose error field and message field are
\* both "Album not found" (plus details in development mode).
C4_AlbumNotFound ==
    BackendMissedAlbum =>
        /\ resp.status = 404
        /\ resp.body.error = "Album not found"
        /\ resp.body.message = "Album not found"
        /\ DOMAIN resp.body \subseteq {"error", "message", "details"}
        /\ ("details" \in DOMAIN resp.body) <=> (env.nodeEnv = "development")

C4_Witness ==
    /\ BackendMissedAlbum
    /\ bk.status = 503
    /\ "error" \in DOMAIN bk.body
    /\ resp.status = 404

UploadRoutes == {"POST /upload", "POST /upload (observed)"}

ValidUploadOfSize(size) ==
    /\ Handled
    /\ req.route \in UploadRoutes
    /\ req.session
    /\ req.bodyOk
    /\ req.file.present
    /\ req.file.type \in VALID_TYPES
    /\ req.file.size = size

\* C10: an authenticated upload of an allowed type is forwarded to the backend when
\* the file has at most 52,428,800 bytes, and is rejected with 400 "File too large",
\* without a backend call, when it has 52,428,801 bytes or more.
C10_UploadSizeBoundary ==
    \A size \in FileSizes :
        ValidUploadOfSize(size) =>
            IF size <= 52428800
            THEN /\ Len(Outbound(trace)) = 1
                 /\ Outbound(trace)[1].arg = "/api/images/upload"
                 /\ (bk.kind = "ok" /\ bk.parses) => resp = [status |-> 200, body |-> bk.body]
                 /\ resp.body # [error |-> "File too large"]
            ELSE /\ resp = [status |-> 400, body |-> [error |-> "File too large"]]
                 /\ Outbound(trace) = << >>

C10_Witness ==
    /\ ValidUploadOfSize(52428800)
    /\ bk.kind = "ok"
    /\ bk.parses
    /\ resp.status = 200

\* C11: an authenticated upload of a file within the size limit is forwarded to
\* the backend exactly when its MIME type is image/jpeg, image/png, image/gif or
\* image/webp; with any other type it is rejected with 400 "Invalid file type"
\* and no backend call.
C11_UploadTypeAllowList ==
    (/\ Handled
     /\ req.route \in UploadRoutes
     /\ req.session
     /\ req.bodyOk
     /\ req.file.present
     /\ req.file.size <= 52428800)
    => IF req.file.type \in {"image/jpeg", "image/png", "image/gif", "image/webp"}
       THEN /\ Len(Outbound(trace)) = 1
            /\ resp.body # [error |-> "Invalid file type"]
            /\ (bk.kind = "ok" /\ bk.parses) => resp = [status |-> 200, body |-> bk.body]
       ELSE /\ resp = [status |-> 400, body |-> [error |-> "Invalid file type"]]
            /\ Outbound(trace) = << >>

C11_Witness ==
    /\ Handled
    /\ req.route \in UploadRoutes
    /\ req.session
    /\ req.bodyOk
    /\ req.file.present
    /\ req.file.size = 1024
    /\ req.file.type = "image/bmp"
    /\ resp.status = 400

\* The response the first failing check of an upload calls for
FirstFailingCheck ==
    IF ~req.session THEN [status |-> 401, body |-> [error |-> "Unauthorized"]]
    ELSE IF ~req.file.present THEN [status |-> 400, body |-> [error |-> "No file provided"]]
    ELSE IF req.file.size > 52428800 THEN [status |-> 400, body |-> [error |-> "File too large"]]
    ELSE IF req.file.type \notin {"image/jpeg", "image/png", "image/gif", "image/webp"}
    THEN [status |-> 400, body |-> [error |-> "Invalid file type"]]
    ELSE NoValue

\* C12: an upload is checked for session, then file present, then size, then
\* type; the first check that fails decides the response, the session is read
\* before anything else, and a rejected upload issues no backend call.
C12_UploadCheckOrder ==
    (/\ Handled
     /\ req.route \in UploadRoutes
     /\ (req.session => req.bodyOk)
     /\ FirstFailingCheck # NoValue)
    => /\ resp = FirstFailingCheck
       /\ trace[1] = SessionEv
       /\ Outbound(trace) = << >>

\* A file that is both too large and of a type not allowed
C12_Witness ==
    /\ Handled
    /\ req.route \in UploadRoutes
    /\ req.session
    /\ req.file.present
    /\ req.file.size > 52428800
    /\ req.file.type = "application/pdf"
    /\ resp.body = [error |-> "File too large"]

HasMetric(name, suffix, dims) ==
    \E i \in DOMAIN trace : trace[i] = MetricEv(name, suffix, dims)

\* C13: the upload handler with metrics emits UploadRejected tagged with the
\* reason for every upload rejected by validation (missing file, too large,
\* invalid type), ImageUploaded tagged with the file type for every successful
\* upload, and UploadFailed for every upload ended by an exception or a backend
\* failure.
C13_UploadOutcomeMetrics ==
    (/\ Handled
     /\ req.route = "POST /upload (observed)"
     /\ req.session)
    => IF ~req.bodyOk THEN HasMetric("UploadFailed", "", "")
       ELSE IF ~req.file.present
       THEN \E i \in DOMAIN trace : IsMetric(trace[i]) /\ trace[i].name = "UploadRejected"
       ELSE IF req.file.size > 52428800 THEN HasMetric("UploadRejected", "FileTooLarge", "Reason")
       ELSE IF req.file.type \notin VALID_TYPES
       THEN HasMetric("UploadRejected", "InvalidFileType", "Reason")
       ELSE IF bk.kind = "ok" /\ bk.parses
       THEN HasMetric("ImageUploaded", req.file.type, "FileType")
       ELSE HasMetric("UploadFailed", "", "")

ReadOnlyRoutes == {"GET /albums", "GET /albums/{id}", "GET /images"}

CallsOut(t) == SelectSeq(t, LAMBDA ev : ev.ev \in {"fetch", "s3"})

\* C14: with the backend base URL unset or empty, every proxy operation that gets
\* as far as needing the backend (read-only, or authenticated with a readable
\* body) answers 500 "Backend API not configured" and calls nothing outside.
C14_BackendNotConfigured ==
    (/\ Handled
     /\ ~env.backendUrlSet
     /\ req.route \in ReadOnlyRoutes \cup JsonProxyRoutes
     /\ (req.route \in JsonProxyRoutes => req.session /\ req.bodyOk))
    => /\ resp = [status |-> 500, body |-> [error |-> "Backend API not configured"]]
       /\ CallsOut(trace) = << >>

AlbumCreated ==
    /\ Handled
    /\ req.route = "POST /albums"
    /\ req.session
    /\ req.bodyOk
    /\ bk.kind = "ok"
    /\ bk.parses

\* C15: an authenticated POST /albums with a valid body that the backend answers
\* with success returns 201 and the backend's JSON, after exactly one outbound
\* call: a POST to /api/albums with Content-Type application/json, the configured
\* X-API-Key, and the compact JSON serialization of the input value as body.
C15_CreateAlbumForwarded ==
    AlbumCreated
    => /\ resp = [status |-> 201, body |-> bk.body]
       /\ Len(Outbound(trace)) = 1
       /\ LET c == Outbound(trace)[1]
          IN /\ c.name = "POST"
             /\ c.arg = "/api/albums"
             /\ c.tag \in {"json+key", "json+emptykey"}
             /\ env.apiKeySet => c.tag = "json+key"
             /\ c.body = [json |-> req.text.json, ws |-> FALSE]

\* An album with tags, sent as a JSON text with white space, with the key configured
C15_Witness ==
    /\ AlbumCreated
    /\ env.apiKeySet
    /\ req.text.ws
    /\ "tags" \in DOMAIN req.text.json
    /\ resp.status = 201

\* The handler a read-only route is dispatched to
ReadHandler(r, b, e) ==
    IF r.route = "GET /albums" THEN GetAlbums(r, b, e)
    ELSE IF r.route = "GET /albums/{id}" THEN GetAlbum(r, b, e)
    ELSE GetImages(r, b, e)

\* C16: a read-only route (GET /albums, GET /albums/{id}, GET /images) does not
\* read the session: the same request with the session present instead of
\* absent (or absent instead of present) gets the same response after the same
\* outbound calls, and every outbound fetch is a GET without an API key.
C16_ReadRoutesIgnoreSession ==
    (Handled /\ req.route \in ReadOnlyRoutes)
    => LET twin == ReadHandler([req EXCEPT !.session = ~req.session], bk, env)
       IN /\ resp = [status |-> twin.status, body |-> twin.body]
          /\ trace = twin.trace
          /\ \A i \in DOMAIN trace :
                /\ trace[i].ev # "session"
                /\ IsFetch(trace[i]) => trace[i].name = "GET" /\ trace[i].tag = "none"

\* An album list served to a caller without a session, with the API key configured
C16_Witness ==
    /\ Handled
    /\ req.route = "GET /albums"
    /\ ~req.session
    /\ env.apiKeySet
    /\ resp.status = 200
    /\ Len(Outbound(trace)) = 1

----------------------------------------------------------------------------
(* Direct calls of handleApiError and trackOperation *)

\* Values a catch block can hand to handleApiError
Thrown(kind, name, msg) == [kind |-> kind, name |-> name, msg |-> msg]
ErrorValues ==
    {Err("Error", "database connection string leaked"),
     Err("TypeError", "fetch failed"),
     Thrown("string", "", "Something went wrong"),
     Thrown("object", "", "object with a message"),
     Thrown("bare", "", ""),
     Thrown("null", "", ""),
     Thrown("undefined", "", "")}

StatusCodes == {200, 302, 399, 400, 404, 499, 500, 503, 599}
UserMessages == {"", "Could not save data"}
ContextOperations == {"", "DBQuery"}

InitCalls ==
    /\ RoutesIdle
    /\ env \in Envs
    /\ CallsIdle
    /\ ClientIdle

CallHandleApiError ==
    /\ invoked = NoCall
    /\ \E error \in ErrorValues, statusCode \in StatusCodes,
          userMessage \in UserMessages, operation \in ContextOperations :
          /\ invoked' = [fn |-> "handleApiError", error |-> error, statusCode |-> statusCode,
                         userMessage |-> userMessage, operation |-> operation]
          /\ returned' = handleApiError(error, operation, statusCode, userMessage, env.nodeEnv)
    /\ UNCHANGED << routeVars, clientVars >>

\* Outcomes of the closure handed to trackOperation
ClosureOutcomes ==
    {OpOk(v, << >>) : v \in OkBodies}
    \cup {OpFail(e, << >>) : e \in {NetworkError, Err("Error", "operation failed")}}

\* Which calls on metricsClient reject.  A call rejects when the logger call the
\* client makes throws: logger.debug in ConsoleMetricsClient.putMetric, logger.error
\* in the catch of FileMetricsClient.flush (see the metrics client model below)
FaultSchedules == [1..5 -> BOOLEAN]

CallTrackOperation ==
    /\ invoked = NoCall
    /\ \E name \in {"X", "FetchAlbums"}, op \in ClosureOutcomes, faults \in FaultSchedules :
          /\ invoked' = [fn |-> "trackOperation", name |-> name, op |-> op, faults |-> faults]
          /\ returned' = trackOperation(name, op, faults)
    /\ UNCHANGED << routeVars, clientVars >>

ReturnToCaller ==
    /\ invoked # NoCall
    /\ invoked' = NoCall
    /\ returned' = NoValue
    /\ UNCHANGED << routeVars, clientVars >>

NextErr == CallHandleApiError \/ ReturnToCaller

SpecErr == InitCalls /\ [][NextErr]_vars

NextTrack == CallTrackOperation \/ ReturnToCaller

SpecTrack == InitCalls /\ [][NextTrack]_vars

HandleApiErrorCalled == invoked.fn = "handleApiError"

\* C5: without a userMessage, handleApiError answers every status >= 500 with error
\* "Internal server error", not the real message, and no message field; for every
\* status in 400..499 the error field is the real error message.
C5_ErrorMasking ==
    (HandleApiErrorCalled /\ invoked.userMessage = "") =>
        LET real == IF invoked.error.kind \in {"Error", "string", "object"}
                    THEN invoked.error.msg
                    ELSE "An unknown error occurred"
        IN /\ returned.status = invoked.statusCode
           /\ invoked.statusCode >= 500 =>
                 /\ returned.body.error = "Internal server error"
                 /\ returned.body.error # real
                 /\ "message" \notin DOMAIN returned.body
           /\ (invoked.statusCode >= 400 /\ invoked.statusCode <= 499) =>
                 returned.body.error = real

C5_Witness ==
    /\ HandleApiErrorCalled
    /\ invoked.userMessage = ""
    /\ invoked.statusCode = 500
    /\ invoked.error.msg = "database connection string leaked"
    /\ returned.body.error = "Internal server error"

BestEffortMessage(error) ==
    IF error.kind \in {"Error", "string", "object"} THEN error.msg
    ELSE "An unknown error occurred"

C18_ErrorLoggedAndCounted ==
    HandleApiErrorCalled
    => LET operation == IF invoked.operation = "" THEN "unknown_operation"
                        ELSE invoked.operation
           severity == IF invoked.statusCode >= 500 THEN "critical"
                       ELSE IF invoked.statusCode >= 400 THEN "medium" ELSE "low"
           t == returned.trace
       IN \E i, j \in DOMAIN t :
            /\ i < j
            /\ IsLog(t[i]) /\ t[i].name = "error" /\ t[i].tag = operation
            /\ t[i].statusCode = invoked.statusCode /\ t[i].severity = severity
            /\ IsMetric(t[j]) /\ t[j].name = "ApiErrors" /\ t[j].arg = operation
            /\ t[j].statusCode = invoked.statusCode

\* A server error at exactly 500, from a caller that names its operation
C18_Witness ==
    /\ HandleApiErrorCalled
    /\ invoked.statusCode = 500
    /\ invoked.operation = "DBQuery"
    /\ Len(returned.trace) = 3
    /\ returned.trace[1].severity = "critical"

TrackOperationCalled == invoked.fn = "trackOperation"

\* C6: trackOperation is transparent: it resolves to the value the closure resolved
\* to and rejects with the error the closure rejected with, whether the calls it
\* makes on metricsClient succeed or throw.
C6_TrackOperationTransparent ==
    TrackOperationCalled =>
        /\ returned.ok = invoked.op.ok
        /\ returned.value = invoked.op.value
        /\ returned.error = invoked.op.error

----------------------------------------------------------------------------
(* middleware.ts and lib/api/index.ts: the correlation identifier of a request. *)
(* req is the inbound request and how far it has got, resp the response the    *)
(* middleware prepared, bk the logger the route bound to the request, trace    *)
(* the log lines written for it.                                               *)

MaxLines == 3          \* log lines written for one request

Absent == "<absent>"
InboundRequestIds == {Absent, "client-1"}
\* Values generateRequestId / generateUUID can return
UUIDs == {"uuid-1", "uuid-2"}

\* request.headers.get('x-request-id') ?? generateUUID()
getRequestId(request, uuid) == IF request.inbound # Absent THEN request.inbound ELSE uuid

\* A log line: the requestId bound to the logger that wrote it, and the requestId
\* in the context merged into the call
LogLine(msg, bound, merged) == [msg |-> msg, bound |-> bound, merged |-> merged]

Arrive ==
    /\ req = Idle
    /\ \E h \in InboundRequestIds :
          req' = [route |-> "/api/albums", inbound |-> h, stage |-> "middleware"]
    /\ UNCHANGED << bk, resp, trace, env, callVars, clientVars >>

\* middleware(): a fresh id on the response; the request headers are passed on as they came
Middleware ==
    /\ req # Idle
    /\ req.stage = "middleware"
    /\ \E requestId \in UUIDs : resp' = [xRequestId |-> requestId]
    /\ req' = [req EXCEPT !.stage = "route"]
    /\ UNCHANGED << bk, trace, env, callVars, clientVars >>

\* getRequestLogger(request) at the top of a route handler
GetRequestLogger ==
    /\ req # Idle
    /\ req.stage = "route"
    /\ bk = NoValue
    /\ \E uuid \in UUIDs : bk' = [requestId |-> getRequestId(req, uuid)]
    /\ UNCHANGED << req, resp, trace, env, callVars, clientVars >>

\* logger.debug / info / warn of the route, through its request logger
RouteLogs ==
    /\ req # Idle
    /\ req.stage = "route"
    /\ bk # NoValue
    /\ Len(trace) < MaxLines
    /\ trace' = Append(trace, LogLine("route", bk.requestId, Absent))
    /\ UNCHANGED << req, bk, resp, env, callVars, clientVars >>

\* handleApiError: logger.error on the module-level logger, context {operation}
ErrorLogged ==
    /\ req # Idle
    /\ req.stage = "route"
    /\ Len(trace) < MaxLines
    /\ trace' = Append(trace, LogLine("API error", Absent, Absent))
    /\ UNCHANGED << req, bk, resp, env, callVars, clientVars >>

\* logRequest: createRequestContext and getRequestLogger each call getRequestId
LogRequest ==
    /\ req # Idle
    /\ req.stage = "route"
    /\ Len(trace) < MaxLines
    /\ \E uuid1 \in UUIDs, uuid2 \in UUIDs :
          trace' = Append(trace, LogLine("Request completed", getRequestId(req, uuid2),
                                         getRequestId(req, uuid1)))
    /\ req' = [req EXCEPT !.stage = "completed"]
    /\ UNCHANGED << bk, resp, env, callVars, clientVars >>

Respond ==
    /\ req # Idle
    /\ req.stage \in {"route", "completed"}
    /\ req' = Idle
    /\ bk' = NoValue
    /\ resp' = NoValue
    /\ trace' = << >>
    /\ UNCHANGED << env, callVars, clientVars >>

NextCorrelation ==
    \/ Arrive
    \/ Middleware
    \/ GetRequestLogger
    \/ RouteLogs
    \/ ErrorLogged
    \/ LogRequest
    \/ Respond

InitCorrelation ==
    /\ RoutesIdle
    /\ env \in {[nodeEnv |-> "production", apiKeySet |-> TRUE, backendUrlSet |-> TRUE]}
    /\ CallsIdle
    /\ ClientIdle

SpecCorrelation == InitCorrelation /\ [][NextCorrelation]_vars

\* C19: the x-request-id header of the response and the requestId of every log
\* line written for the request (by the request logger, the completion log and
\* the error log) are one and the same value, and it is the inbound x-request-id
\* when the client sent one.
C19_OneCorrelationId ==
    (req # Idle /\ resp # NoValue)
    => /\ req.inbound # Absent => resp.xRequestId = req.inbound
       /\ \A i \in DOMAIN trace :
             /\ trace[i].bound = resp.xRequestId
             /\ trace[i].merged \in {Absent, resp.xRequestId}

----------------------------------------------------------------------------
(* lib/storage: LocalFileStorage.  bk is the storage object and its uploads   *)
(* directory, req the call in progress, resp what it returned.                *)

MaxTime == 3           \* distinct modification times (T1 < T2 < T3)

\* A file name with what path.parse / path.extname make of it
FileName(name, stem, ext) == [name |-> name, stem |-> stem, ext |-> ext]
UploadNames ==
    {FileName("a.jpg", "a", ".jpg"), FileName("d.svg", "d", ".svg"),
     FileName("notes.txt", "notes", ".txt")}

DirEntry(f, kind, mtime) ==
    [name |-> f.name, stem |-> f.stem, ext |-> f.ext, kind |-> kind, mtime |-> mtime]

\* What the uploads directory may hold before the first call
FoundEntries ==
    {DirEntry(FileName("b.PNG", "b", ".PNG"), "file", 1),
     DirEntry(FileName("readme.txt", "readme", ".txt"), "file", 2),
     DirEntry(FileName("album", "album", ""), "directory", 3)}

\* String.prototype.toLowerCase on the extensions in use
ToLowerCase(ext) == IF ext = ".PNG" THEN ".png" ELSE ext

\* the list of extensions without .svg
ImageExtensionsNoSvg == {".jpg", ".jpeg", ".png", ".gif", ".webp"}

ImageExtensions == {".jpg", ".jpeg", ".png", ".gif", ".webp", ".svg"}

\* `${this.publicPath}/${file}`
getImageUrl(publicPath, name) == [prefix |-> publicPath, file |-> name]

ImageMetadata(publicPath, entry) ==
    [id |-> entry.name, name |-> entry.stem, url |-> getImageUrl(publicPath, entry.name),
     uploadedAt |-> entry.mtime]

\* The comparator of listImages turned round: oldest first
OlderFirst(x, y) == x.uploadedAt - y.uploadedAt

\* (a, b) => new Date(b.uploadedAt).getTime() - new Date(a.uploadedAt).getTime()
NewerFirst(x, y) == y.uploadedAt - x.uploadedAt

RECURSIVE InsertSorted(_, _)
\* Array.prototype.sort is stable: x goes behind the elements it does not precede
InsertSorted(x, sorted) ==
    IF sorted = << >> THEN << x >>
    ELSE IF NewerFirst(Head(sorted), x) <= 0 THEN << Head(sorted) >> \o InsertSorted(x, Tail(sorted))
    ELSE << x >> \o sorted

RECURSIVE SortImages(_)
SortImages(images) ==
    IF images = << >> THEN << >>
    ELSE InsertSorted(images[Len(images)], SortImages(SubSeq(images, 1, Len(images) - 1)))

RECURSIVE CollectImages(_, _)
\* The loop of listImages over the names readdir returned
CollectImages(files, publicPath) ==
    IF files = << >> THEN << >>
    ELSE LET entry == Head(files)
             rest == CollectImages(Tail(files), publicPath)
         IN IF entry.kind = "file" /\ ToLowerCase(entry.ext) \in ImageExtensions
            THEN << ImageMetadata(publicPath, entry) >> \o rest
            ELSE rest

listImages(files, publicPath) == SortImages(CollectImages(files, publicPath))

\* fs.readdir returns the entries in an order of the file system's choosing
Readdir(entries) ==
    {q \in [1..Cardinality(entries) -> entries] :
        \A i, j \in 1..Cardinality(entries) : i # j => q[i] # q[j]}

InitStorage ==
    /\ req = Idle
    /\ resp = NoValue
    /\ trace = << >>
    /\ \E exists \in BOOLEAN, found \in SUBSET FoundEntries,
          publicPath \in {"/uploads", "/static/img"} :
          /\ ~exists => found = {}
          /\ bk = [exists |-> exists, entries |-> found, publicPath |-> publicPath,
                   clock |-> 1]
    /\ env \in {[nodeEnv |-> "production", apiKeySet |-> TRUE, backendUrlSet |-> TRUE]}
    /\ CallsIdle
    /\ ClientIdle

\* listImages()
ListImages ==
    /\ req = Idle
    /\ \E files \in Readdir(bk.entries) :
          /\ req' = [route |-> "listImages", dirExisted |-> bk.exists, files |-> files]
          /\ resp' = listImages(files, bk.publicPath)
    /\ bk' = [bk EXCEPT !.exists = TRUE]
    /\ UNCHANGED << trace, env, callVars, clientVars >>

\* uploadImage(file, filename): the file is written now
UploadImage ==
    /\ req = Idle
    /\ \E f \in UploadNames :
          LET entry == DirEntry(f, "file", bk.clock)
          IN /\ req' = [route |-> "uploadImage", filename |-> f.name]
             /\ resp' = ImageMetadata(bk.publicPath, entry)
             /\ bk' = [bk EXCEPT !.exists = TRUE,
                                 !.entries = {e \in @ : e.name # f.name} \cup {entry}]
    /\ UNCHANGED << trace, env, callVars, clientVars >>

\* deleteImage(filename)
DeleteImage ==
    /\ req = Idle
    /\ \E f \in UploadNames :
          /\ req' = [route |-> "deleteImage", filename |-> f.name]
          /\ bk' = [bk EXCEPT !.entries = {e \in @ : e.name # f.name}]
    /\ resp' = NoValue
    /\ UNCHANGED << trace, env, callVars, clientVars >>

\* imageExists(filename)
CheckImageExists ==
    /\ req = Idle
    /\ \E f \in UploadNames :
          /\ req' = [route |-> "imageExists", filename |-> f.name]
          /\ resp' = (\E e \in bk.entries : e.name = f.name)
    /\ UNCHANGED << bk, trace, env, callVars, clientVars >>

\* Time passes between calls
Tick ==
    /\ req = Idle
    /\ bk.clock < MaxTime
    /\ bk' = [bk EXCEPT !.clock = @ + 1]
    /\ UNCHANGED << req, resp, trace, env, callVars, clientVars >>

StorageReturns ==
    /\ req # Idle
    /\ req' = Idle
    /\ resp' = NoValue
    /\ UNCHANGED << bk, trace, env, callVars, clientVars >>

NextStorage ==
    \/ ListImages
    \/ UploadImage
    \/ DeleteImage
    \/ CheckImageExists
    \/ Tick
    \/ StorageReturns

SpecStorage == InitStorage /\ [][NextStorage]_vars

ListImagesReturned == req # Idle /\ req.route = "listImages"

\* The regular files of the directory with an image extension, in any letter case
ImageFiles ==
    {e \in bk.entries :
        /\ e.kind = "file"
        /\ ToLowerCase(e.ext) \in {".jpg", ".jpeg", ".png", ".gif", ".webp", ".svg"}}

\* C20: listImages returns one item for each regular file of the uploads
\* directory with an image extension and nothing else, with id the file name,
\* url the public prefix followed by the file name and uploadedAt the
\* modification time, newest first; and the directory exists afterwards, an
\* absent directory giving the empty list.
C20_ListImagesNewestFirst ==
    ListImagesReturned
    => /\ Len(resp) = Cardinality(ImageFiles)
       /\ \A e \in ImageFiles :
             \E i \in DOMAIN resp :
                /\ resp[i].id = e.name
                /\ resp[i].url = [prefix |-> bk.publicPath, file |-> e.name]
                /\ resp[i].uploadedAt = e.mtime
       /\ \A i, j \in DOMAIN resp : i < j => resp[i].uploadedAt >= resp[j].uploadedAt
       /\ bk.exists
       /\ ~req.dirExisted => resp = << >>

\* Three images written at T1 < T2 < T3, listed among entries that are no images
C20_Witness ==
    /\ ListImagesReturned
    /\ Len(resp) = 3
    /\ resp[1].uploadedAt = 3 /\ resp[2].uploadedAt = 2 /\ resp[3].uploadedAt = 1
    /\ Cardinality(bk.entries) = 5
    /\ req.files[1].mtime = 1

----------------------------------------------------------------------------
(* lib/observability/metrics.ts, CloudWatch variant: the metrics clients.     *)
(* Requests run concurrently on one event loop: a step is the code between    *)
(* two awaits.  A flush swaps the buffer out, awaits the sink write, and on   *)
(* completion either logs success or logs the failure and re-queues.          *)

BUFFER_SIZE == 3       \* flush threshold (100 file, 20 CloudWatch), scaled down
MaxMetrics == 4        \* metrics accepted in one behaviour
NCallers == 2          \* requests calling the client concurrently

BufferedKinds == {"file", "cloudwatch"}
ClientKinds == {"noop", "console"} \cup BufferedKinds

Caller(state, outcome) == [state |-> state, outcome |-> outcome]
Waiter(who, id) == [who |-> who, id |-> id]
Flush(batch, waiter) == [batch |-> batch, waiter |-> waiter]
Logged(level, msg) == [level |-> level, msg |-> msg]

\* The constructor: the periodic timer is started only when the client is enabled
ClientConstructed(kinds, loggerFaults) ==
    /\ client \in [kind : kinds, enabled : BOOLEAN, loggerThrows : loggerFaults]
    /\ metricsBuffer = << >>
    /\ flushTimer = (client.enabled /\ client.kind \in BufferedKinds)
    /\ inflight = {}
    /\ sink = << >>
    /\ nextId = 1
    /\ callers = [p \in 1..NCallers |-> Caller("idle", "none")]
    /\ log = << >>

Settle(p, outcome) == [callers EXCEPT ![p] = Caller("idle", outcome)]

\* catch block of flush(), re-queueing behind what was appended meanwhile
RequeueAtBack(batch, buffer) == buffer \o batch

\* a failed batch dropped instead of put back
RequeueNothing(batch, buffer) == buffer

\* catch block of flush(): this.metricsBuffer.unshift(...metricsToFlush)
Requeue(batch, buffer) == batch \o buffer

\* flush() taking a copy of the buffer without emptying it
BufferAfterSwapKept(buffer) == buffer

\* flush(): this.metricsBuffer = [] once metricsToFlush holds the copy
BufferAfterSwap(buffer) == << >>

\* a threshold that is passed only by exceeding it
BufferFullStrict(buffer) == Len(buffer) > BUFFER_SIZE

\* this.metricsBuffer.length >= BUFFER_SIZE
BufferFull(buffer) == Len(buffer) >= BUFFER_SIZE

\* putMetric / trackDuration / trackCount / trackError: the three track methods
\* build a metric and await putMetric
PutMetric(p) ==
    /\ callers[p].state = "idle"
    /\ nextId <= MaxMetrics
    /\ IF client.kind = "noop"
       THEN /\ callers' = Settle(p, "resolved")
            /\ log' = << >>
            /\ UNCHANGED << metricsBuffer, inflight, nextId >>
       ELSE IF client.kind = "console"
       THEN /\ callers' = Settle(p, IF client.enabled /\ client.loggerThrows
                                    THEN "rejected" ELSE "resolved")
            /\ log' = IF client.enabled /\ ~client.loggerThrows
                      THEN << Logged("debug", "Metric recorded") >> ELSE << >>
            /\ UNCHANGED << metricsBuffer, inflight, nextId >>
       ELSE IF ~client.enabled
       THEN \* only the CloudWatch client logs the skipped metric
            /\ callers' = Settle(p, IF client.kind = "cloudwatch" /\ client.loggerThrows
                                    THEN "rejected" ELSE "resolved")
            /\ log' = IF client.kind = "cloudwatch" /\ ~client.loggerThrows
                      THEN << Logged("debug", "Metrics disabled, skipping metric") >>
                      ELSE << >>
            /\ UNCHANGED << metricsBuffer, inflight, nextId >>
       ELSE LET pushed == Append(metricsBuffer, nextId)
            IN /\ nextId' = nextId + 1
               /\ log' = << >>
               /\ IF BufferFull(pushed)
                  THEN /\ inflight' = inflight \cup {Flush(pushed, Waiter("putMetric", p))}
                       /\ metricsBuffer' = BufferAfterSwap(pushed)
                       /\ callers' = [callers EXCEPT ![p] = Caller("awaiting", "none")]
                  ELSE /\ metricsBuffer' = pushed
                       /\ callers' = Settle(p, "resolved")
                       /\ UNCHANGED inflight
    /\ UNCHANGED << client, flushTimer, sink, routeVars, callVars >>

\* The setInterval callback of startPeriodicFlush
TimerFlush ==
    /\ flushTimer
    /\ metricsBuffer # << >>
    /\ inflight' = inflight \cup {Flush(metricsBuffer, Waiter("timer", 0))}
    /\ metricsBuffer' = BufferAfterSwap(metricsBuffer)
    /\ log' = << >>
    /\ UNCHANGED << client, flushTimer, sink, nextId, callers, routeVars, callVars >>

\* shutdown(): clears the timer, then flushes what is buffered
Shutdown ==
    /\ client.kind \in BufferedKinds
    /\ flushTimer' = FALSE
    /\ IF metricsBuffer = << >>
       THEN /\ log' = IF client.loggerThrows THEN << >>
                      ELSE << Logged("info", "Metrics client shutdown complete") >>
            /\ UNCHANGED << metricsBuffer, inflight >>
       ELSE /\ inflight' = inflight \cup {Flush(metricsBuffer, Waiter("shutdown", 0))}
            /\ metricsBuffer' = BufferAfterSwap(metricsBuffer)
            /\ log' = << >>
    /\ UNCHANGED << client, sink, nextId, callers, routeVars, callVars >>

\* What the awaiting code does once flush() settled
FlushSettled(f, outcome, logged) ==
    /\ inflight' = inflight \ {f}
    /\ callers' = IF f.waiter.who = "putMetric" THEN Settle(f.waiter.id, outcome) ELSE callers
    /\ log' = logged \o
              (IF client.loggerThrows THEN << >>
               ELSE IF f.waiter.who = "shutdown" /\ outcome = "resolved"
               THEN << Logged("info", "Metrics client shutdown complete") >>
               ELSE IF f.waiter.who = "timer" /\ outcome = "rejected"
               THEN << Logged("error", "Periodic metrics flush failed") >>
               ELSE << >>)

\* flush() after the sink write succeeded.  The success log is inside the try:
\* when it throws the catch runs, and its logger.error throws out of flush()
FlushWriteOk(f) ==
    /\ f \in inflight
    /\ sink' = sink \o f.batch
    /\ IF client.loggerThrows
       THEN FlushSettled(f, "rejected", << >>)
       ELSE FlushSettled(f, "resolved", << Logged("debug", "Flushed metrics") >>)
    /\ UNCHANGED << client, metricsBuffer, flushTimer, nextId, routeVars, callVars >>

\* flush() after the sink write failed: the catch logs, then re-queues
FlushWriteFail(f) ==
    /\ f \in inflight
    /\ IF client.loggerThrows
       THEN /\ FlushSettled(f, "rejected", << >>)
            /\ UNCHANGED metricsBuffer
       ELSE /\ FlushSettled(f, "resolved", << Logged("error", "Failed to flush metrics") >>)
            /\ metricsBuffer' = Requeue(f.batch, metricsBuffer)
    /\ UNCHANGED << client, flushTimer, sink, nextId, routeVars, callVars >>

NextClient ==
    \/ \E p \in 1..NCallers : PutMetric(p)
    \/ TimerFlush
    \/ Shutdown
    \/ \E f \in inflight : FlushWriteOk(f)
    \/ \E f \in inflight : FlushWriteFail(f)

InitBuf ==
    /\ RoutesIdle
    /\ env \in {[nodeEnv |-> "production", apiKeySet |-> TRUE, backendUrlSet |-> TRUE]}
    /\ CallsIdle
    /\ ClientConstructed(BufferedKinds, {FALSE})

\* The buffered clients with a logger that works
SpecBuf == InitBuf /\ [][NextClient]_vars

InitClients ==
    /\ RoutesIdle
    /\ env \in {[nodeEnv |-> "production", apiKeySet |-> TRUE, backendUrlSet |-> TRUE]}
    /\ CallsIdle
    /\ ClientConstructed(ClientKinds, BOOLEAN)

\* Every client, with a logger that works or one whose calls throw
SpecClients == InitClients /\ [][NextClient]_vars

----------------------------------------------------------------------------
(* Properties of the metrics clients *)

\* C7: on every backend, enabled or disabled, no call of putMetric (and so of
\* trackDuration, trackCount and trackError, which await it) is rejected into
\* its caller, also when the sink write fails or the logger throws.
C7_MetricsCallsNeverRaise ==
    \A p \in 1..NCallers : callers[p].outcome # "rejected"

\* A flush that left the in-flight set without writing to the sink has failed
FlushFailedIn(f) == f \in inflight /\ f \notin inflight' /\ sink' = sink

FailureLogged(l) == \E i \in DOMAIN l : l[i] = Logged("error", "Failed to flush metrics")

\* C8: when a flush fails, the step that ends it leaves the whole batch in the
\* buffer, in its original order and ahead of everything that was appended
\* while the flush was in progress, and logs the failure.
C8_FailedFlushRequeues ==
    [][\A f \in inflight :
          FlushFailedIn(f) => /\ metricsBuffer' = f.batch \o metricsBuffer
                              /\ FailureLogged(log')]_vars

\* A failed flush has just put its batch back in front of a metric that was
\* appended while it was in progress
C8_Witness ==
    /\ FailureLogged(log)
    /\ Len(metricsBuffer) > BUFFER_SIZE
    /\ metricsBuffer[Len(metricsBuffer)] = nextId - 1
    /\ metricsBuffer[1] = 1

CountIn(s, m) == Cardinality({i \in DOMAIN s : s[i] = m})

CountInFlight(m) ==
    Cardinality({x \in inflight \X (1..MaxMetrics + 1) :
                    x[2] \in DOMAIN x[1].batch /\ x[1].batch[x[2]] = m})

Occurrences(m) == CountIn(metricsBuffer, m) + CountInFlight(m) + CountIn(sink, m)

\* C9: under every interleaving of putMetric calls, threshold flushes, timer
\* flushes and shutdown, each accepted metric is in exactly one of the buffer,
\* an in-flight batch and the sink, and a metric not yet accepted is in none.
C9_EachMetricInOnePlace ==
    \A m \in 1..(MaxMetrics + 1) : Occurrences(m) = IF m < nextId THEN 1 ELSE 0

\* Metrics are spread over the sink, two concurrent flushes and the buffer
C9_Witness ==
    /\ sink # << >>
    /\ Cardinality(inflight) >= 2
    /\ metricsBuffer # << >>

----------------------------------------------------------------------------
(* Failures reaching the route boundary.                                       *)

ErrorLogs(t) == SelectSeq(t, LAMBDA e : IsLog(e) /\ e.name = "error")

ErrorMetrics(t) == SelectSeq(t, LAMBDA e : IsMetric(e) /\ e.name = "Errors")

\* the route's catch block ran: handleApiError wrote its "API error" record
CaughtAtBoundary ==
    /\ Handled
    /\ \E i \in DOMAIN trace : IsLog(trace[i]) /\ trace[i].arg = "API error"

\* C22: a request whose failure reached the route's catch block has exactly one
\* error log record and exactly one "Errors" metric in its trace: the helpers
\* inside the route add none of their own.
C22_FailureHandledOnce ==
    CaughtAtBoundary =>
        /\ Len(ErrorLogs(trace)) = 1
        /\ Len(ErrorMetrics(trace)) = 1

\* C23: a handled request made at most one fetch to the backend, whatever the
\* backend did (answered with success, answered with an error status, threw).
C23_AtMostOneBackendRequest ==
    Handled => Len(Outbound(trace)) <= 1

C23_Witness ==
    /\ Handled
    /\ req.route \in {"PUT /albums/{id}/reorder", "POST /upload"}
    /\ req.session
    /\ bk.kind = "throw"
    /\ Len(Outbound(trace)) = 1
    /\ resp.status = 500

----------------------------------------------------------------------------
(* Metrics of one trackOperation call.                                         *)

MetricsOf(t) == SelectSeq(t, IsMetric)

\* C24: one call trackOperation(name, fn) emits, in this order, the duration
\* metric and name.Success when fn resolved, and the duration metric,
\* name.Failure and the error metric for name when fn rejected; so the duration
\* metric occurs once and Success and Failure never both occur.
C24_TrackOperationMetricOrder ==
    TrackOperationCalled =>
        MetricsOf(returned.trace) =
            IF invoked.op.ok
            THEN << MetricEv(invoked.name, "duration", ""),
                    MetricEv(invoked.name, "Success", "") >>
            ELSE << MetricEv(invoked.name, "duration", ""),
                    MetricEv(invoked.name, "Failure", ""),
                    MetricEv("Errors", invoked.name, "ErrorType") >>

----------------------------------------------------------------------------
(* What starts a flush of a buffered client.                                   *)

FlushesStarted == {f \in inflight' : f \notin inflight}

\* C25: on an enabled buffered client a putMetric starts a flush of the whole
\* buffer exactly when the push brings the buffer to the threshold, and below
\* it leaves sink and flushes alone; every sink write is the batch of a flush,
\* and a flush is started only by such a putMetric, by the running timer or by
\* shutdown; shutdown hands everything buffered to a flush and stops the
\* timer; a disabled client has no buffer content, no timer and no writes.
C25_FlushTriggers ==
    [][ /\ nextId' # nextId =>
              IF Len(metricsBuffer) + 1 >= BUFFER_SIZE
              THEN /\ \E f \in FlushesStarted :
                         /\ f.waiter.who = "putMetric"
                         /\ f.batch = Append(metricsBuffer, nextId)
                   /\ metricsBuffer' = << >>
              ELSE /\ FlushesStarted = {}
                   /\ sink' = sink
                   /\ metricsBuffer' = Append(metricsBuffer, nextId)
        /\ sink' # sink => \E f \in inflight : sink' = sink \o f.batch
        /\ \A f \in FlushesStarted :
              \/ f.waiter.who = "putMetric" /\ nextId' # nextId
              \/ f.waiter.who = "timer" /\ flushTimer /\ flushTimer'
              \/ f.waiter.who = "shutdown" /\ ~flushTimer'
        /\ (flushTimer /\ ~flushTimer') =>
              /\ metricsBuffer' = << >>
              /\ metricsBuffer # << >> =>
                    \E f \in FlushesStarted : f.batch = metricsBuffer
        /\ ~client.enabled =>
              /\ metricsBuffer = << >> /\ metricsBuffer' = << >>
              /\ ~flushTimer /\ ~flushTimer'
              /\ inflight' = {}
              /\ sink' = << >>
      ]_vars

C25_Witness ==
    /\ client.enabled
    /\ \E f \in inflight : f.waiter.who = "putMetric" /\ Len(f.batch) = BUFFER_SIZE
    /\ \E f \in inflight : f.waiter.who = "shutdown"
    /\ ~flushTimer

----------------------------------------------------------------------------
(* Progress of the buffered clients while the client is not shut down: the    *)
(* setInterval callback keeps being run, and a sink write that is attempted    *)
(* again and again succeeds at some attempt.                                   *)

NextClientRunning ==
    \/ \E p \in 1..NCallers : PutMetric(p)
    \/ TimerFlush
    \/ \E f \in inflight : FlushWriteOk(f)
    \/ \E f \in inflight : FlushWriteFail(f)

SpecBufLive ==
    /\ InitBuf
    /\ [][NextClientRunning]_vars
    /\ WF_vars(TimerFlush)
    /\ SF_vars(\E f \in inflight : FlushWriteOk(f))

Accepted(m) == m < nextId

\* in the sink and neither buffered nor in a batch being flushed
WrittenAndReleased(m) ==
    CountIn(sink, m) = 1 /\ CountIn(metricsBuffer, m) = 0 /\ CountInFlight(m) = 0

\* C29: while the timer keeps firing, every metric accepted by an enabled
\* buffered client is eventually in the sink and in memory no more, also when
\* it never reached the threshold and when writes failed before.
C29_AcceptedEventuallyWritten ==
    \A m \in 1..MaxMetrics : Accepted(m) ~> WrittenAndReleased(m)

\* a single metric, below the threshold, written by a timer flush
C29_Witness ==
    /\ flushTimer
    /\ nextId = 2
    /\ WrittenAndReleased(1)
    /\ \E i \in DOMAIN log : log[i].msg = "Flushed metrics"

\* C30: metrics reach the sink in the order in which the client accepted them
\* (ids are given in acceptance order), whatever flushes failed, were retried
\* or overlapped.
C30_SinkInAcceptanceOrder ==
    \A i, j \in DOMAIN sink : i < j => sink[i] < sink[j]

----------------------------------------------------------------------------
(* LocalFileStorage called from requests handled concurrently.  A step is the  *)
(* code between two awaits; callers[p] is the call request p has in progress.  *)

IdleCall == [fn |-> "none", pc |-> "idle"]

Present(name) == \E e \in bk.entries : e.name = name

\* fs.stat(path): the entry now under that name
StatOf(name) == CHOOSE e \in bk.entries : e.name = name

DeleteCall(filename, pc, outcome) ==
    [fn |-> "deleteImage", filename |-> filename, pc |-> pc, outcome |-> outcome]

ListCall(pc, outcome, files, images) ==
    [fn |-> "listImages", pc |-> pc, outcome |-> outcome, files |-> files, images |-> images]

UploadCallOf(filename, pc, outcome) ==
    [fn |-> "uploadImage", filename |-> filename, pc |-> pc, outcome |-> outcome]

ExistsCall(filename, result) ==
    [fn |-> "imageExists", filename |-> filename, pc |-> "done", outcome |-> "resolved",
     result |-> result]

\* await fs.unlink(filePath): ENOENT when the file is not there
Unlink(present) == IF present THEN "resolved" ELSE "rejected"

\* deleteImage up to its await: existsSync(filePath)
DeleteImageCheck(p) ==
    /\ callers[p] = IdleCall
    /\ \E f \in UploadNames :
          callers' = [callers EXCEPT ![p] =
                         IF Present(f.name) THEN DeleteCall(f.name, "unlink", "pending")
                         ELSE DeleteCall(f.name, "done", "resolved")]
    /\ UNCHANGED << routeVars, callVars, client, metricsBuffer, flushTimer, inflight,
                    sink, nextId, log >>

\* deleteImage: fs.unlink(filePath) completes
DeleteImageUnlink(p) ==
    /\ callers[p].fn = "deleteImage"
    /\ callers[p].pc = "unlink"
    /\ LET f == callers[p].filename
       IN /\ callers' = [callers EXCEPT ![p] = DeleteCall(f, "done", Unlink(Present(f)))]
          /\ bk' = [bk EXCEPT !.entries = {e \in @ : e.name # f}]
    /\ UNCHANGED << req, resp, trace, env, callVars, client, metricsBuffer, flushTimer,
                    inflight, sink, nextId, log >>

\* listImages: ensureUploadsDir and fs.readdir
ListImagesReaddir(p) ==
    /\ callers[p] = IdleCall
    /\ \E files \in Readdir(bk.entries) :
          callers' = [callers EXCEPT ![p] =
                         IF files = << >> THEN ListCall("done", "resolved", << >>, << >>)
                         ELSE ListCall("stat", "pending", files, << >>)]
    /\ bk' = [bk EXCEPT !.exists = TRUE]
    /\ UNCHANGED << req, resp, trace, env, callVars, client, metricsBuffer, flushTimer,
                    inflight, sink, nextId, log >>

\* listImages: one fs.stat of the loop; after the last one the sort and the return
ListImagesStat(p) ==
    /\ callers[p].fn = "listImages"
    /\ callers[p].pc = "stat"
    /\ LET c == callers[p]
           name == Head(c.files).name
           images == c.images \o CollectImages(<< StatOf(name) >>, bk.publicPath)
       IN callers' = [callers EXCEPT ![p] =
                         IF ~Present(name) THEN ListCall("done", "rejected", << >>, << >>)
                         ELSE IF Tail(c.files) = << >>
                         THEN ListCall("done", "resolved", << >>, SortImages(images))
                         ELSE ListCall("stat", "pending", Tail(c.files), images)]
    /\ UNCHANGED << routeVars, callVars, client, metricsBuffer, flushTimer, inflight,
                    sink, nextId, log >>

\* uploadImage: ensureUploadsDir and fs.writeFile
UploadImageWrite(p) ==
    /\ callers[p] = IdleCall
    /\ \E f \in UploadNames :
          /\ callers' = [callers EXCEPT ![p] = UploadCallOf(f.name, "stat", "pending")]
          /\ bk' = [bk EXCEPT !.exists = TRUE,
                              !.entries = {e \in @ : e.name # f.name}
                                              \cup {DirEntry(f, "file", bk.clock)}]
    /\ UNCHANGED << req, resp, trace, env, callVars, client, metricsBuffer, flushTimer,
                    inflight, sink, nextId, log >>

\* uploadImage: fs.stat of the file written, and the return
UploadImageStat(p) ==
    /\ callers[p].fn = "uploadImage"
    /\ callers[p].pc = "stat"
    /\ callers' = [callers EXCEPT ![p] =
                      UploadCallOf(@.filename, "done",
                                   IF Present(@.filename) THEN "resolved" ELSE "rejected")]
    /\ UNCHANGED << routeVars, callVars, client, metricsBuffer, flushTimer, inflight,
                    sink, nextId, log >>

\* imageExists(filename): existsSync, no await
ImageExists(p) ==
    /\ callers[p] = IdleCall
    /\ \E f \in UploadNames :
          callers' = [callers EXCEPT ![p] = ExistsCall(f.name, Present(f.name))]
    /\ UNCHANGED << routeVars, callVars, client, metricsBuffer, flushTimer, inflight,
                    sink, nextId, log >>

StorageCallReturns(p) ==
    /\ callers[p].pc = "done"
    /\ callers' = [callers EXCEPT ![p] = IdleCall]
    /\ UNCHANGED << routeVars, callVars, client, metricsBuffer, flushTimer, inflight,
                    sink, nextId, log >>

NextStorageCalls ==
    \/ \E p \in 1..NCallers : DeleteImageCheck(p)
    \/ \E p \in 1..NCallers : DeleteImageUnlink(p)
    \/ \E p \in 1..NCallers : ListImagesReaddir(p)
    \/ \E p \in 1..NCallers : ListImagesStat(p)
    \/ \E p \in 1..NCallers : UploadImageWrite(p)
    \/ \E p \in 1..NCallers : UploadImageStat(p)
    \/ \E p \in 1..NCallers : ImageExists(p)
    \/ \E p \in 1..NCallers : StorageCallReturns(p)

InitStorageCalls ==
    /\ req = Idle
    /\ resp = NoValue
    /\ trace = << >>
    /\ \E exists \in BOOLEAN, found \in SUBSET FoundEntries :
          /\ ~exists => found = {}
          /\ Cardinality(found) <= 1
          /\ bk = [exists |-> exists, entries |-> found, publicPath |-> "/uploads",
                   clock |-> 1]
    /\ env \in {[nodeEnv |-> "production", apiKeySet |-> TRUE, backendUrlSet |-> TRUE]}
    /\ CallsIdle
    /\ client = [kind |-> "noop", enabled |-> FALSE, loggerThrows |-> FALSE]
    /\ metricsBuffer = << >>
    /\ flushTimer = FALSE
    /\ inflight = {}
    /\ sink = << >>
    /\ nextId = 1
    /\ log = << >>
    /\ callers = [p \in 1..NCallers |-> IdleCall]

SpecStorageCalls == InitStorageCalls /\ [][NextStorageCalls]_vars

\* C21: no deleteImage call is rejected, whether the file was there or not and
\* whatever deleteImage and listImages calls run at the same time.
C21_DeleteNeverFails ==
    \A p \in 1..NCallers :
        callers[p].fn = "deleteImage" => callers[p].outcome # "rejected"

----------------------------------------------------------------------------
(* Upload, existence check, listing and delete of one file, call after call.   *)

CallOn(name, route) == req'.route = route /\ req'.filename = name

\* how many items of a listing have this id
ListedAs(listing, name) == Cardinality({i \in DOMAIN listing : listing[i].id = name})

HasImageExtension(f) ==
    ToLowerCase(f.ext) \in {".jpg", ".jpeg", ".png", ".gif", ".webp", ".svg"}

\* No file of these names is there at first; the file of a name is stored from
\* the uploadImage that wrote it until the deleteImage that removes it;
\* imageExists answers whether it is stored; a listing holds one item for a
\* stored file with an image extension, `others` items for a stored file of
\* another extension and none for a file not stored
RoundTrip(others) ==
    \A f \in UploadNames :
        /\ CallOn(f.name, "uploadImage") => Present(f.name)'
        /\ CallOn(f.name, "deleteImage") => ~Present(f.name)'
        /\ ~(CallOn(f.name, "uploadImage") \/ CallOn(f.name, "deleteImage"))
              => (Present(f.name)' <=> Present(f.name))
        /\ CallOn(f.name, "imageExists") => (resp' <=> Present(f.name))
        /\ req'.route = "listImages"
              => ListedAs(resp', f.name) =
                     IF ~Present(f.name) THEN 0
                     ELSE IF HasImageExtension(f) THEN 1 ELSE others

NoneStored == \A f \in UploadNames : ~Present(f.name)

\* C28 as claimed: for every filename f, from a successful uploadImage(f) until
\* deleteImage(f) imageExists(f) is true and listImages has exactly one item
\* with id f; after deleteImage(f) imageExists(f) is false and no item has id f.
C28_RoundTripEveryName ==
    NoneStored /\ [][ req = Idle /\ req' # Idle => RoundTrip(1) ]_vars

\* C28: the same for every filename f with an image extension (in any letter
\* case); a stored file of another extension exists but is never listed.
C28_RoundTripImageNames ==
    NoneStored /\ [][ req = Idle /\ req' # Idle => RoundTrip(0) ]_vars

\* a.jpg uploaded, found by imageExists, listed; notes.txt stored and not listed
C28_Witness ==
    /\ ListImagesReturned
    /\ \E i \in DOMAIN resp : resp[i].id = "a.jpg" /\ resp[i].uploadedAt > 1
    /\ Present("notes.txt")
    /\ ~Present("d.svg")

----------------------------------------------------------------------------
(* initializeObservability and the process-wide error handlers.                *)

MaxInitCalls == 4

\* which logger.info call of an initialization throws
InitFaults == {"none", "registered", "initialized"}

Listeners(n) == [unhandledRejection |-> n, uncaughtException |-> n]

\* process.on(event, handler) for both events: one more listener each
ProcessOn(listeners) ==
    [unhandledRejection |-> listeners.unhandledRejection + 1,
     uncaughtException |-> listeners.uncaughtException + 1]

\* registerGlobalErrorHandlers: [listeners, log, threw]
registerGlobalErrorHandlers(listeners, fault) ==
    [listeners |-> ProcessOn(listeners),
     log |-> IF fault = "registered" THEN << >>
             ELSE << Logged("info", "Global error handlers registered") >>,
     threw |-> fault = "registered"]

\* initializeObservability: [initialized, listeners, log, threw]
initializeObservability(initialized, listeners, isServer, fault) ==
    IF initialized \/ ~isServer
    THEN [initialized |-> initialized, listeners |-> listeners, log |-> << >>,
          threw |-> FALSE]
    ELSE LET reg == registerGlobalErrorHandlers(listeners, fault)
             failed == << Logged("console.error", "Failed to initialize observability:") >>
         IN IF reg.threw
            THEN [initialized |-> FALSE, listeners |-> reg.listeners,
                  log |-> reg.log \o failed, threw |-> FALSE]
            ELSE IF fault = "initialized"
            THEN [initialized |-> FALSE, listeners |-> reg.listeners,
                  log |-> reg.log \o failed, threw |-> FALSE]
            ELSE [initialized |-> TRUE, listeners |-> reg.listeners,
                  log |-> reg.log \o << Logged("info", "Observability initialized") >>,
                  threw |-> FALSE]

\* the module is loaded: `let initialized = false`, no listener registered yet
InitObservability ==
    /\ req = Idle
    /\ resp = NoValue
    /\ trace = << >>
    /\ bk = [initialized |-> FALSE, listeners |-> Listeners(0), calls |-> 0]
    /\ env \in {[isServer |-> b] : b \in BOOLEAN}
    /\ CallsIdle
    /\ ClientIdle

\* a call of initializeObservability (the first is the one at module import)
CallInitializeObservability ==
    /\ invoked = NoCall
    /\ bk.calls < MaxInitCalls
    /\ \E fault \in InitFaults :
          LET r == initializeObservability(bk.initialized, bk.listeners, env.isServer, fault)
          IN /\ invoked' = [fn |-> "initializeObservability", fault |-> fault]
             /\ returned' = [threw |-> r.threw]
             /\ bk' = [initialized |-> r.initialized, listeners |-> r.listeners,
                       calls |-> bk.calls + 1]
             /\ log' = log \o r.log
    /\ UNCHANGED << req, resp, trace, env, client, metricsBuffer, flushTimer, inflight,
                    sink, nextId, callers >>

InitializeObservabilityReturns ==
    /\ invoked # NoCall
    /\ invoked' = NoCall
    /\ returned' = NoValue
    /\ UNCHANGED << routeVars, clientVars >>

NextObservability == CallInitializeObservability \/ InitializeObservabilityReturns

SpecObservability == InitObservability /\ [][NextObservability]_vars

\* C26: however often initializeObservability is called, and also after a call
\* whose log call threw once the handlers were registered, each of the two
\* process events has at most one handler registered and no call throws.
C26_InitializeIdempotent ==
    /\ bk.listeners.unhandledRejection <= 1
    /\ bk.listeners.uncaughtException <= 1
    /\ invoked # NoCall => ~returned.threw

----------------------------------------------------------------------------
(* The album edit page: drag-reorder of the album's images.                    *)

MaxImages == 3
MaxDrags == 2

ImageIds == 1..MaxImages

AlbumImage(id) == [id |-> id]

\* album.images.findIndex((img) => img.id === id)
FindIndex(images, id) == CHOOSE i \in DOMAIN images : images[i].id = id

RemoveAt(q, i) == SubSeq(q, 1, i - 1) \o SubSeq(q, i + 1, Len(q))

InsertAt(q, i, x) == SubSeq(q, 1, i - 1) \o << x >> \o SubSeq(q, i, Len(q))

\* arrayMove(array, from, to): the element at `from` taken out and put at `to`
arrayMove(q, from, to) == InsertAt(RemoveAt(q, from), to, q[from])

\* newImages.map((img) => img.id)
IdsOf(images) == [i \in DOMAIN images |-> images[i].id]

\* the album as displayed (state `album`)
Album(images, image_ids) == [images |-> images, image_ids |-> image_ids]

PageRequest(kind, id, image_ids, stage, data) ==
    [kind |-> kind, id |-> id, image_ids |-> image_ids, stage |-> stage, data |-> data]

\* the page after its first fetchAlbum: the album shown in the backend's order
InitAlbumPage ==
    /\ \E order \in Permutations(ImageIds) :
          LET images == [i \in DOMAIN order |-> AlbumImage(order[i])]
          IN /\ bk = [images |-> images]
             /\ resp = Album(images, order)
    /\ req = Idle
    /\ trace = << >>
    /\ env \in {[nodeEnv |-> "production", apiKeySet |-> TRUE, backendUrlSet |-> TRUE]}
    /\ CallsIdle
    /\ ClientIdle

\* handleDragEnd up to its await: optimistic update, PUT .../reorder sent
HandleDragEnd ==
    /\ nextId <= MaxDrags
    /\ \E active \in ImageIds, over \in ImageIds :
          /\ active # over
          /\ LET oldIndex == FindIndex(resp.images, active)
                 newIndex == FindIndex(resp.images, over)
                 newImages == arrayMove(resp.images, oldIndex, newIndex)
                 newImageIds == IdsOf(newImages)
             IN /\ resp' = Album(newImages, newImageIds)
                /\ inflight' = inflight \cup
                       {PageRequest("reorder", nextId, newImageIds, "sent", << >>)}
    /\ nextId' = nextId + 1
    /\ UNCHANGED << req, bk, trace, env, callVars, client, metricsBuffer, flushTimer,
                    sink, callers, log >>

\* the reorder is saved and answered with success: handleDragEnd ends
ReorderSaved(r) ==
    /\ r \in inflight
    /\ r.kind = "reorder"
    /\ bk' = [images |-> [i \in DOMAIN r.image_ids |-> AlbumImage(r.image_ids[i])]]
    /\ inflight' = inflight \ {r}
    /\ UNCHANGED << req, resp, trace, env, callVars, client, metricsBuffer, flushTimer,
                    sink, nextId, callers, log >>

\* the reorder is answered with a non-success status: fetch resolves and
\* handleDragEnd ends without looking at the response
ReorderRefused(r) ==
    /\ r \in inflight
    /\ r.kind = "reorder"
    /\ inflight' = inflight \ {r}
    /\ UNCHANGED << routeVars, callVars, client, metricsBuffer, flushTimer, sink, nextId,
                    callers, log >>

\* fetch rejects: the catch logs and calls fetchAlbum()
ReorderThrows(r) ==
    /\ r \in inflight
    /\ r.kind = "reorder"
    /\ inflight' = (inflight \ {r})
                       \cup {PageRequest("fetchAlbum", r.id, << >>, "sent", << >>)}
    /\ log' = Append(log, Logged("console.error", "Failed to reorder images:"))
    /\ UNCHANGED << routeVars, callVars, client, metricsBuffer, flushTimer, sink, nextId,
                    callers >>

\* GET /api/albums/{id} answered by the backend with its current order
FetchAlbumAnswered(f) ==
    /\ f \in inflight
    /\ f.kind = "fetchAlbum"
    /\ f.stage = "sent"
    /\ inflight' = (inflight \ {f})
                       \cup {PageRequest("fetchAlbum", f.id, << >>, "answered", bk.images)}
    /\ UNCHANGED << routeVars, callVars, client, metricsBuffer, flushTimer, sink, nextId,
                    callers, log >>

\* fetchAlbum after its awaits: setAlbum(data)
FetchAlbumApplied(f) ==
    /\ f \in inflight
    /\ f.kind = "fetchAlbum"
    /\ f.stage = "answered"
    /\ resp' = Album(f.data, IdsOf(f.data))
    /\ inflight' = inflight \ {f}
    /\ UNCHANGED << req, bk, trace, env, callVars, client, metricsBuffer, flushTimer,
                    sink, nextId, callers, log >>

\* fetchAlbum failing (not ok, or fetch rejecting): setError, the album stays
FetchAlbumFailed(f) ==
    /\ f \in inflight
    /\ f.kind = "fetchAlbum"
    /\ f.stage = "sent"
    /\ inflight' = inflight \ {f}
    /\ UNCHANGED << routeVars, callVars, client, metricsBuffer, flushTimer, sink, nextId,
                    callers, log >>

NextAlbumPage ==
    \/ HandleDragEnd
    \/ \E r \in inflight : ReorderSaved(r)
    \/ \E r \in inflight : ReorderRefused(r)
    \/ \E r \in inflight : ReorderThrows(r)
    \/ \E f \in inflight : FetchAlbumAnswered(f)
    \/ \E f \in inflight : FetchAlbumApplied(f)
    \/ \E f \in inflight : FetchAlbumFailed(f)

SpecAlbumPage == InitAlbumPage /\ [][NextAlbumPage]_vars

SameImages(a, b) == {a[i] : i \in DOMAIN a} = {b[i] : i \in DOMAIN b} /\ Len(a) = Len(b)

\* C27: the displayed album always holds the backend's images, each once, with
\* image_ids naming them in display order; and once no reorder request and no
\* re-fetch is in flight the displayed order is the backend's order.
C27_ReorderRevertedOnFailure ==
    /\ SameImages(resp.images, bk.images)
    /\ resp.image_ids = IdsOf(resp.images)
    /\ inflight = {} => resp.images = bk.images

====
